---- MODULE Spec2Model ----
(***************************************************************************)
(* BemiDB Syncer: the sync command (main.go), one run of SyncFromPostgres  *)
(* over the tables of the source, the incremental skip decision, the       *)
(* per-table metadata files and the deletion reconciliation of the sink.   *)
(***************************************************************************)
EXTENDS Integers, Sequences, FiniteSets, TLC

(***************************************************************************)
(* Bounds of the model.                                                    *)
(***************************************************************************)
\* wall clock readings stay below this (one reading per run of syncFromPg)
MaxTime == 5
\* a source table holds between 1 and this many rows
MaxRows == 2
\* the wire server accepts at most this many connections
MaxConns == 4
\* a database URL is a scheme (or none) followed by at most this many characters
MaxUrlLen == 5
\* a spool holds at most this many times BATCH_SIZE * PING_INTERVAL_BETWEEN_BATCHES
\* rows, and one more
MaxPingIntervals == 2
\* the Writer calls nextBatch at most this many times after the first empty batch
MaxExtraCalls == 2
\* at most this many Set calls are made on an OrderedMap, NewOrderedMap's included
MaxSets == 4
\* at most this many failures (of a query, a file operation, the Writer, the
\* Reader or the connection) occur in one run of syncFromPg
MaxFaults == 1

\* the tables a source may hold; names are plain identifiers (no quote, no dot)
PgSchemaTables ==
  { [Schema |-> "s1", Table |-> "t1"],
    [Schema |-> "s1", Table |-> "t2"] }

(***************************************************************************)
(* Descriptors.                                                            *)
(***************************************************************************)
\* PgSchemaTable.String(): fmt.Sprintf(`"%s"."%s"`, Schema, Table)
PgString(pgSchemaTable) ==
  "\"" \o pgSchemaTable.Schema \o "\".\"" \o pgSchemaTable.Table \o "\""

\* IcebergSchemaTable.String(): the same quoted rendering
IcebergString(schemaTable) ==
  "\"" \o schemaTable.Schema \o "\".\"" \o schemaTable.Table \o "\""

\* PgSchemaTable.ToIcebergSchemaTable(): schema and table are copied as they are
ToIcebergSchemaTable(pgSchemaTable) ==
  [Schema |-> pgSchemaTable.Schema, Table |-> pgSchemaTable.Table]

\* tableId of shouldSyncTable: fmt.Sprintf("%s.%s", Schema, Table)
TableId(pgSchemaTable) == pgSchemaTable.Schema \o "." \o pgSchemaTable.Table


(***************************************************************************)
(* Configuration (Config.Pg) and the command line.                         *)
(***************************************************************************)
\* a Set[string] option of the configuration that was not given (nil)
NilSet == [isNil |-> TRUE, items |-> {}]
\* NewSet(items)
NewSet(items) == [isNil |-> FALSE, items |-> items]
\* Set.Contains
Contains(set, item) == item \in set.items

\* the filter settings the sync runs of the model are started with
RunFilters ==
  { [IncludeSchemas |-> NilSet, ExcludeSchemas |-> NilSet,
     IncludeTables |-> NilSet, ExcludeTables |-> NilSet],
    [IncludeSchemas |-> NewSet({"s2"}), ExcludeSchemas |-> NilSet,
     IncludeTables |-> NilSet, ExcludeTables |-> NilSet],
    [IncludeSchemas |-> NilSet, ExcludeSchemas |-> NilSet,
     IncludeTables |-> NilSet, ExcludeTables |-> NewSet({"s1.t1"})] }
\* Pg.SchemaPrefix values
SchemaPrefixes == {"", "p_"}
\* Pg.SyncInterval values: not set, or a duration
SyncIntervals == {"", "1h"}
\* the --since argument: absent, a duration, or an RFC3339 instant; instant 0 is
\* Go's zero time (0001-01-01T00:00:00Z), instant -1 lies before it (year 0000)
SinceArgs ==
  { [kind |-> "none", val |-> 0],
    [kind |-> "duration", val |-> 1],
    [kind |-> "duration", val |-> 2],
    [kind |-> "timestamp", val |-> 0],
    [kind |-> "timestamp", val |-> -1] }

Configs ==
  { [filter |-> f, SchemaPrefix |-> p, SyncInterval |-> i] :
      f \in RunFilters, p \in SchemaPrefixes, i \in SyncIntervals }

\* a shouldSyncTable whose exclude lists are consulted before the include lists
ShouldSyncTableExcludeFirst(pg, schemaTable) ==
  LET tableId == TableId(schemaTable)
      schemaPasses ==
        IF ~pg.ExcludeSchemas.isNil
          THEN ~Contains(pg.ExcludeSchemas, schemaTable.Schema)
          ELSE IF ~pg.IncludeSchemas.isNil
                 THEN Contains(pg.IncludeSchemas, schemaTable.Schema)
                 ELSE TRUE
  IN  IF ~schemaPasses THEN FALSE
      ELSE IF ~pg.ExcludeTables.isNil THEN ~Contains(pg.ExcludeTables, tableId)
      ELSE IF ~pg.IncludeTables.isNil THEN Contains(pg.IncludeTables, tableId)
      ELSE TRUE

\* shouldSyncTable
ShouldSyncTable(pg, schemaTable) ==
  LET tableId == TableId(schemaTable)
      schemaPasses ==
        IF ~pg.IncludeSchemas.isNil
          THEN Contains(pg.IncludeSchemas, schemaTable.Schema)
          ELSE IF ~pg.ExcludeSchemas.isNil
                 THEN ~Contains(pg.ExcludeSchemas, schemaTable.Schema)
                 ELSE TRUE
  IN  IF ~schemaPasses THEN FALSE
      ELSE IF ~pg.IncludeTables.isNil THEN Contains(pg.IncludeTables, tableId)
      ELSE IF ~pg.ExcludeTables.isNil THEN ~Contains(pg.ExcludeTables, tableId)
      ELSE TRUE

\* syncFromPg: the SyncOptions built from --since at wall clock reading `clock`
NilOptions == [isNil |-> TRUE, Since |-> 0]
SyncOptionsOf(sinceArg, clock) ==
  CASE sinceArg.kind = "none" -> NilOptions
    [] sinceArg.kind = "duration" -> [isNil |-> FALSE, Since |-> clock - sinceArg.val]
    [] sinceArg.kind = "timestamp" -> [isNil |-> FALSE, Since |-> sinceArg.val]

(***************************************************************************)
(* Table metadata and the checksum.                                        *)
(***************************************************************************)
\* TableMetadata{}: what getTableMetadata returns when the file does not exist
EmptyMetadata == [LastSyncTime |-> 0, RowCount |-> 0, Checksum |-> ""]

\* getTableMetadata, the file read having succeeded or the file being absent
GetTableMetadata(files, pgSchemaTable) ==
  IF pgSchemaTable \in DOMAIN files THEN files[pgSchemaTable] ELSE EmptyMetadata

\* saveTableMetadata: the file of the table is overwritten
SaveTableMetadata(files, pgSchemaTable, metadata) ==
  [t \in (DOMAIN files) \cup {pgSchemaTable} |->
     IF t = pgSchemaTable THEN metadata ELSE files[t]]

\* SUM(hashtext(CAST(t.* AS text))) scanned as a string: row i of a table hashes
\* to i; the sum over no rows is the empty string
SumHash(rows) == IF rows = 0 THEN "" ELSE ToString((rows * (rows + 1)) \div 2)

\* calculateTableChecksum: "" when the query fails, else "<count>:<sum>"
CalculateTableChecksum(rows, queryFails) ==
  IF queryFails THEN "" ELSE ToString(rows) \o ":" \o SumHash(rows)

\* hasTableChanged
HasTableChanged(currentChecksum, metadata) == currentChecksum # metadata.Checksum

\* time.Time.IsZero
IsZero(t) == t = 0
\* time.Time.After
After(t, u) == t > u

\* syncFromPgTable, lines 298-299: the checksum is queried only when incremental
\* sync is requested and the last sync is after Since
QueriesChecksum(options, metadata) ==
  /\ ~options.isNil
  /\ ~IsZero(options.Since)
  /\ After(metadata.LastSyncTime, options.Since)

\* syncFromPgTable, lines 298-303: the table is skipped
SkipsTable(options, metadata, currentChecksum) ==
  /\ QueriesChecksum(options, metadata)
  /\ ~HasTableChanged(currentChecksum, metadata)

(***************************************************************************)
(* The Iceberg catalog as the Reader and the Writer see it.                *)
(***************************************************************************)
NoTables == [t \in {} |-> 0]
EmptyCatalog == [schemas |-> {}, tables |-> NoTables]

\* IcebergWriter.Write: the table's new snapshot holds the rows streamed
IcebergWrite(catalog, schemaTable, rows) ==
  [schemas |-> catalog.schemas \cup {schemaTable.Schema},
   tables |-> [t \in (DOMAIN catalog.tables) \cup {schemaTable} |->
                 IF t = schemaTable THEN rows ELSE catalog.tables[t]]]

\* IcebergWriter.DeleteSchema: the schema goes with all its tables
IcebergDeleteSchema(catalog, schema) ==
  [schemas |-> catalog.schemas \ {schema},
   tables |-> [t \in {u \in DOMAIN catalog.tables : u.Schema # schema} |->
                 catalog.tables[t]]]

\* IcebergWriter.DeleteSchemaTable
IcebergDeleteSchemaTable(catalog, schemaTable) ==
  [schemas |-> catalog.schemas,
   tables |-> [t \in (DOMAIN catalog.tables) \ {schemaTable} |-> catalog.tables[t]]]

\* IcebergReader.Schemas and IcebergReader.SchemaTables
IcebergSchemas(catalog) == catalog.schemas
IcebergSchemaTables(catalog) == DOMAIN catalog.tables

(***************************************************************************)
(* Deletion reconciliation.                                                *)
(***************************************************************************)
\* a SyncFromPostgres that reconciles whatever the prefix is
ReconcilesAlways(pg) == TRUE

\* a SyncFromPostgres whose test of the prefix is inverted
ReconcilesWhenPrefixed(pg) == pg.SchemaPrefix # ""

\* SyncFromPostgres, line 180
ReconcilesDeletions(pg) == pg.SchemaPrefix = ""

\* deleteOldIcebergSchemaTables, lines 424-430
PrefixedPgSchemaTables(prefix, selected) ==
  { [Schema |-> prefix \o t.Schema, Table |-> t.Table] : t \in selected }

\* deleteOldIcebergSchemaTables, lines 435-448: the schemas DeleteSchema is called for
OldIcebergSchemas(catalog, prefixed) ==
  { s \in IcebergSchemas(catalog) : ~ \E t \in prefixed : s = t.Schema }

\* a table loop that compares the schema alone
OldIcebergSchemaTablesBySchema(catalog, prefixed) ==
  { i \in IcebergSchemaTables(catalog) : ~ \E t \in prefixed : i.Schema = t.Schema }

\* deleteOldIcebergSchemaTables, lines 453-466: the tables DeleteSchemaTable is called for
OldIcebergSchemaTables(catalog, prefixed) ==
  { i \in IcebergSchemaTables(catalog) :
      ~ \E t \in prefixed : IcebergString(i) = PgString(t) }

RECURSIVE DeleteSchemas(_, _)
DeleteSchemas(catalog, schemas) ==
  IF schemas = {} THEN catalog
  ELSE LET s == CHOOSE x \in schemas : TRUE
       IN  DeleteSchemas(IcebergDeleteSchema(catalog, s), schemas \ {s})

RECURSIVE DeleteSchemaTables(_, _)
DeleteSchemaTables(catalog, schemaTables) ==
  IF schemaTables = {} THEN catalog
  ELSE LET i == CHOOSE x \in schemaTables : TRUE
       IN  DeleteSchemaTables(IcebergDeleteSchemaTable(catalog, i), schemaTables \ {i})

(***************************************************************************)
(* State.                                                                  *)
(***************************************************************************)
VARIABLES
  pc,             \* where the process is: "off", "syncFromPg", "tables",
                  \* "returned" (SyncFromPostgres returned), "crashed" (a panic
                  \* ended the process)
  config,         \* the Config of the process
  since,          \* the --since argument of the process
  options,        \* the SyncOptions of the run
  now,            \* the wall clock
  faults,         \* failures so far in this run
  listed,         \* the source tables the run's enumeration has yielded so far
  pgSchemaTables, \* SyncFromPostgres: the tables that passed shouldSyncTable
  catalog,        \* the Iceberg catalog (the sink)
  metadataFiles,  \* <StoragePath>/metadata/<schema>/<table>.json
  last,           \* the last call of syncFromPgTable, or the panic that ended the run
  writerCalls,    \* the tables IcebergWriter.Write was called for in this run
  deleteCalls,    \* the DeleteSchema / DeleteSchemaTable calls of this run
  tempFiles,      \* the names of the spool files in the file system
  conn,           \* the source connection of the run and its transaction
  sourceRows,     \* the rows the table enumeration has still to yield
  syncCalls,      \* how often syncFromPgTable was called for each table in this run
  stream,         \* one Write: the spool, the nextBatch closure and the batches
  databaseUrl,    \* urlEncodePassword: the URL and its encodings
  orderedMap,     \* an OrderedMap and the Set calls made on it
  server,         \* start: the wire server process
  sessions        \* start: the state of each accepted connection

\* the state of the sync command
syncVars == <<pc, config, since, options, now, faults, listed, pgSchemaTables, catalog,
              metadataFiles, last, writerCalls, deleteCalls, tempFiles, conn>>
\* the state of the parts modelled on their own
enumVars == <<sourceRows, syncCalls>>
partVars == <<stream, databaseUrl, orderedMap, server, sessions>>

vars == <<syncVars, enumVars, partVars>>

NoTable == [Schema |-> "", Table |-> ""]
NoCall ==
  [table |-> NoTable, outcome |-> "none", error |-> "", rows |-> 0,
   queried |-> FALSE, currentChecksum |-> "", streamed |-> 0]
DefaultConfig ==
  [filter |-> [IncludeSchemas |-> NilSet, ExcludeSchemas |-> NilSet,
               IncludeTables |-> NilSet, ExcludeTables |-> NilSet],
   SchemaPrefix |-> "", SyncInterval |-> ""]
NoMetadataFiles == [t \in {} |-> EmptyMetadata]

\* no connection to the source
NoConn == [open |-> FALSE, txn |-> "none", read |-> FALSE, readOutsideTxn |-> FALSE]
\* the parts modelled on their own, not in use
NoEnum == sourceRows = {} /\ syncCalls = <<>>
NoParts ==
  /\ stream = <<>>
  /\ databaseUrl = <<>>
  /\ orderedMap = <<>>
  /\ server = "off"
  /\ sessions = <<>>

Init ==
  /\ pc = "off"
  /\ config = DefaultConfig
  /\ since = [kind |-> "none", val |-> 0]
  /\ options = NilOptions
  /\ now = 2
  /\ faults = 0
  /\ listed = {}
  /\ pgSchemaTables = {}
  /\ catalog = EmptyCatalog
  /\ metadataFiles = NoMetadataFiles
  /\ last = NoCall
  /\ writerCalls = {}
  /\ deleteCalls = {}
  /\ tempFiles = {}
  /\ conn = NoConn
  /\ NoEnum
  /\ NoParts

(***************************************************************************)
(* The source connection of a run.                                         *)
(***************************************************************************)
\* pgx.Connect, line 162
Connect == [NoConn EXCEPT !.open = TRUE]

\* a run that reads the source without beginning a transaction
NoTransaction(c) == c

\* line 166: BEGIN TRANSACTION ISOLATION LEVEL SERIALIZABLE READ ONLY DEFERRABLE
BeginTransaction(c) == [c EXCEPT !.txn = "begun"]

\* a statement that reads the source on the connection: the enumerations, the
\* checksum query, COPY, the column query, SELECT 1
SourceRead(c) ==
  [c EXCEPT !.read = TRUE, !.readOutsideTxn = @ \/ ~c.open \/ c.txn # "begun"]

\* the deferred conn.Close of line 164: the transaction ends with the connection
CloseConn(c) == [c EXCEPT !.open = FALSE, !.txn = "none"]

(***************************************************************************)
(* The spool file of an export.                                            *)
(***************************************************************************)
CreateTemporaryFile(files, name) == files \cup {name}
DeleteTemporaryFile(files, name) == files \ {name}

\* how a call of exportPgTableToCsv ends: in the panic of line 409, in the panic
\* of line 417, or by returning the reopened file
ExportOutcomes == {"CreateTemporaryFile", "CopyTo", "returns"}

\* an export whose spool file is deleted only when it returns
ExportDeletingOnReturn(files, t, outcome) ==
  IF outcome = "CreateTemporaryFile" THEN files
  ELSE IF outcome = "CopyTo" THEN CreateTemporaryFile(files, PgString(t))
  ELSE DeleteTemporaryFile(CreateTemporaryFile(files, PgString(t)), PgString(t))

\* exportPgTableToCsv, lines 407-421: the spool files afterwards. The deferred
\* DeleteTemporaryFile is registered once the file exists and runs when the
\* function returns and when it panics
ExportPgTableToCsv(files, t, outcome) ==
  IF outcome = "CreateTemporaryFile" THEN files
  ELSE DeleteTemporaryFile(CreateTemporaryFile(files, PgString(t)), PgString(t))

(***************************************************************************)
(* main: the sync command.                                                 *)
(***************************************************************************)
\* main, lines 11-28: a process is started with its configuration and arguments
Main(cfg, sinceArg) ==
  /\ pc \in {"off", "crashed"}
  /\ now < MaxTime
  /\ pc' = "syncFromPg"
  /\ config' = cfg
  /\ since' = sinceArg
  /\ options' = NilOptions
  /\ listed' = {}
  /\ pgSchemaTables' = {}
  /\ last' = NoCall
  /\ writerCalls' = {}
  /\ deleteCalls' = {}
  /\ faults' = 0
  /\ conn' = NoConn
  /\ UNCHANGED <<now, catalog, metadataFiles, tempFiles, enumVars, partVars>>

\* syncFromPg up to the table loop of SyncFromPostgres (lines 73-98, 158-170):
\* the options are built, the source is connected to and the transaction begun;
\* a failure of the connection panics
SyncFromPg(sourceFails) ==
  /\ pc = "syncFromPg"
  /\ now < MaxTime
  /\ now' = now + 1
  /\ options' = SyncOptionsOf(since, now')
  /\ listed' = {}
  /\ pgSchemaTables' = {}
  /\ writerCalls' = {}
  /\ deleteCalls' = {}
  /\ IF sourceFails
       THEN /\ faults' = 1
            /\ pc' = "crashed"
            /\ last' = [NoCall EXCEPT !.outcome = "panic", !.error = "pgx.Connect"]
            /\ conn' = NoConn
       ELSE /\ faults' = 0
            /\ pc' = "tables"
            /\ last' = NoCall
            /\ conn' = SourceRead(BeginTransaction(Connect))
  /\ UNCHANGED <<config, since, catalog, metadataFiles, tempFiles, enumVars, partVars>>

(***************************************************************************)
(* syncFromPgTable.                                                        *)
(***************************************************************************)
Count(flag) == IF flag THEN 1 ELSE 0

\* the calls of syncFromPgTable that go through PanicIfError, and the Writer,
\* whose failure panics as well (Write returns nothing)
CallsBeforeCommit ==
  {"exportPgTableToCsv", "csvReader.Read", "pgTableSchemaColumns", "IcebergWriter.Write"}

\* a metadata update that counts the header line of the spool as a row
UpdatedMetadataWithHeader(clock, totalRowCount, checksum) ==
  [LastSyncTime |-> clock, RowCount |-> totalRowCount + 1, Checksum |-> checksum]

\* syncFromPgTable, lines 351-353: the metadata saved after Write has returned
UpdatedMetadata(clock, totalRowCount, checksum) ==
  [LastSyncTime |-> clock, RowCount |-> totalRowCount, Checksum |-> checksum]

\* PanicIfError(err) with err # nil: nothing recovers the panic, the process ends
Panics(call, error, nFaults) ==
  /\ faults + nFaults <= MaxFaults
  /\ faults' = faults + nFaults
  /\ pc' = "crashed"
  /\ last' = [call EXCEPT !.outcome = "panic", !.error = error]

\* syncFromPgTable for a table of the source holding `rows` rows
SyncFromPgTable(t, rows) ==
  LET metadata == GetTableMetadata(metadataFiles, t)
      queried == QueriesChecksum(options, metadata)
      call == [NoCall EXCEPT !.table = t, !.rows = rows]
  IN
  \/ \* line 294-295: the metadata file exists and cannot be read
     /\ Panics(call, "getTableMetadata", 1)
     /\ UNCHANGED <<catalog, metadataFiles, writerCalls, tempFiles>>
  \/ \E queryFails \in BOOLEAN :
       /\ queryFails => queried
       /\ LET currentChecksum == CalculateTableChecksum(rows, queryFails)
              decided == [call EXCEPT !.queried = queried,
                                      !.currentChecksum =
                                         IF queried THEN currentChecksum ELSE ""]
          IN
          IF SkipsTable(options, metadata, currentChecksum)
            THEN \* lines 300-301
                 /\ faults + Count(queryFails) <= MaxFaults
                 /\ faults' = faults + Count(queryFails)
                 /\ last' = [decided EXCEPT !.outcome = "skipped"]
                 /\ UNCHANGED <<pc, catalog, metadataFiles, writerCalls, tempFiles>>
            ELSE
              \/ \* lines 305-348: a call before the commit fails
                 \E error \in CallsBeforeCommit :
                   /\ Panics(decided, error, 1 + Count(queryFails))
                   /\ writerCalls' =
                        IF error = "IcebergWriter.Write"
                          THEN writerCalls \cup {ToIcebergSchemaTable(t)}
                          ELSE writerCalls
                   /\ \E outcome \in ExportOutcomes :
                        /\ (outcome = "returns") <=> (error # "exportPgTableToCsv")
                        /\ tempFiles' = ExportPgTableToCsv(tempFiles, t, outcome)
                   /\ UNCHANGED <<catalog, metadataFiles>>
              \/ \* lines 318-355: Write returns; nextBatch has streamed the rows
                 \* read before the first error of csvReader.Read (end of file
                 \* or not)
                 \E streamed \in 0..rows, checksumFails \in BOOLEAN, saveFails \in BOOLEAN :
                   LET written == [decided EXCEPT !.streamed = streamed]
                       nFaults == Count(queryFails) + Count(streamed < rows)
                                    + Count(checksumFails) + Count(saveFails)
                       saved == UpdatedMetadata(now, streamed,
                                  CalculateTableChecksum(rows, checksumFails))
                   IN
                   /\ tempFiles' = ExportPgTableToCsv(tempFiles, t, "returns")
                   /\ writerCalls' = writerCalls \cup {ToIcebergSchemaTable(t)}
                   /\ catalog' = IcebergWrite(catalog, ToIcebergSchemaTable(t), streamed)
                   /\ IF saveFails
                        THEN /\ Panics(written, "saveTableMetadata", nFaults)
                             /\ UNCHANGED metadataFiles
                        ELSE /\ faults + nFaults <= MaxFaults
                             /\ faults' = faults + nFaults
                             /\ metadataFiles' = SaveTableMetadata(metadataFiles, t, saved)
                             /\ last' = [written EXCEPT !.outcome = "synced"]
                             /\ UNCHANGED pc

\* SyncFromPostgres, lines 171-178: one pass of the loop, for the next table the
\* enumeration yields
SyncTable(t, rows) ==
  /\ pc = "tables"
  /\ t \notin listed
  /\ listed' = listed \cup {t}
  /\ IF ShouldSyncTable(config.filter, t)
       THEN /\ pgSchemaTables' = pgSchemaTables \cup {t}
            /\ SyncFromPgTable(t, rows)
       ELSE UNCHANGED <<pc, faults, pgSchemaTables, catalog, metadataFiles, last,
                        writerCalls, tempFiles>>
  /\ conn' = IF pc' = "crashed" THEN CloseConn(SourceRead(conn)) ELSE SourceRead(conn)
  /\ UNCHANGED <<config, since, options, now, deleteCalls, enumVars, partVars>>

(***************************************************************************)
(* The end of SyncFromPostgres and of the process.                         *)
(***************************************************************************)
SchemaCall(schema) == [op |-> "DeleteSchema", schema |-> schema, table |-> ""]
TableCall(schemaTable) ==
  [op |-> "DeleteSchemaTable", schema |-> schemaTable.Schema, table |-> schemaTable.Table]

\* deleteOldIcebergSchemaTables: the catalog afterwards and the calls made, when
\* the Reader fails in `readerFails` ("" for no failure)
DeleteOldIcebergSchemaTables(before, prefix, selected, readerFails) ==
  LET prefixed == PrefixedPgSchemaTables(prefix, selected)
      oldSchemas ==
        IF readerFails = "Schemas" THEN {} ELSE OldIcebergSchemas(before, prefixed)
      afterSchemas == DeleteSchemas(before, oldSchemas)
      oldTables ==
        IF readerFails # "" THEN {} ELSE OldIcebergSchemaTables(afterSchemas, prefixed)
  IN  [catalog |-> DeleteSchemaTables(afterSchemas, oldTables),
       calls |-> {SchemaCall(x) : x \in oldSchemas} \cup {TableCall(x) : x \in oldTables}]

\* SyncFromPostgres, lines 180-183: the enumeration has ended; the deletions are
\* reconciled when ReconcilesDeletions, and the run returns
Reconcile(readerFails) ==
  /\ pc = "tables"
  /\ IF ReconcilesDeletions(config)
       THEN LET done == DeleteOldIcebergSchemaTables(catalog, config.SchemaPrefix,
                                                     pgSchemaTables, readerFails)
            IN  /\ catalog' = done.catalog
                /\ deleteCalls' = done.calls
                /\ IF readerFails # ""
                     THEN Panics(NoCall, "IcebergReader." \o readerFails, 1)
                     ELSE /\ pc' = "returned"
                          /\ UNCHANGED <<faults, last>>
       ELSE /\ readerFails = ""
            /\ pc' = "returned"
            /\ UNCHANGED <<faults, catalog, deleteCalls, last>>
  /\ conn' = CloseConn(conn)
  /\ UNCHANGED <<config, since, options, now, listed, pgSchemaTables, metadataFiles,
                 writerCalls, tempFiles, enumVars, partVars>>

\* main, lines 34-38: with Pg.SyncInterval set the process sleeps and loops
SleepAndLoop ==
  /\ pc = "returned"
  /\ config.SyncInterval # ""
  /\ pc' = "syncFromPg"
  /\ options' = NilOptions
  /\ listed' = {}
  /\ pgSchemaTables' = {}
  /\ last' = NoCall
  /\ writerCalls' = {}
  /\ deleteCalls' = {}
  /\ faults' = 0
  /\ conn' = NoConn
  /\ UNCHANGED <<config, since, now, catalog, metadataFiles, tempFiles, enumVars, partVars>>

\* main, lines 39-41: without Pg.SyncInterval the process ends after one run
Exit ==
  /\ pc = "returned"
  /\ config.SyncInterval = ""
  /\ pc' = "off"
  /\ config' = DefaultConfig
  /\ since' = [kind |-> "none", val |-> 0]
  /\ options' = NilOptions
  /\ listed' = {}
  /\ pgSchemaTables' = {}
  /\ last' = NoCall
  /\ writerCalls' = {}
  /\ deleteCalls' = {}
  /\ faults' = 0
  /\ conn' = NoConn
  /\ UNCHANGED <<now, catalog, metadataFiles, tempFiles, enumVars, partVars>>

Next ==
  \/ \E cfg \in Configs, sinceArg \in SinceArgs : Main(cfg, sinceArg)
  \/ \E sourceFails \in BOOLEAN : SyncFromPg(sourceFails)
  \/ \E t \in PgSchemaTables, rows \in 1..MaxRows : SyncTable(t, rows)
  \/ \E readerFails \in {"", "Schemas", "SchemaTables"} : Reconcile(readerFails)
  \/ SleepAndLoop
  \/ Exit

Spec == Init /\ [][Next]_vars


(***************************************************************************)
(* shouldSyncTable on its own: every filter setting over the names below,  *)
(* applied to every table.                                                 *)
(***************************************************************************)
FilterSchemas == {"s1", "s2"}
FilterTables ==
  PgSchemaTables \cup {[Schema |-> "s2", Table |-> "t1"]}
FilterTableIds == {"s1.t1", "s2.t1"}
SchemaSets == {NilSet} \cup {NewSet(x) : x \in SUBSET FilterSchemas}
TableIdSets == {NilSet} \cup {NewSet(x) : x \in SUBSET FilterTableIds}
Filters ==
  [IncludeSchemas : SchemaSets, ExcludeSchemas : SchemaSets,
   IncludeTables : TableIdSets, ExcludeTables : TableIdSets]

InitFilter ==
  /\ tempFiles = {}
  /\ conn = NoConn
  /\ NoEnum
  /\ NoParts
  /\ pc = "filter"
  /\ config \in {[DefaultConfig EXCEPT !.filter = f] : f \in Filters}
  /\ since = [kind |-> "none", val |-> 0]
  /\ options = NilOptions
  /\ now = 2
  /\ faults = 0
  /\ listed = {}
  /\ pgSchemaTables = {}
  /\ catalog = EmptyCatalog
  /\ metadataFiles = NoMetadataFiles
  /\ last = NoCall
  /\ writerCalls = {}
  /\ deleteCalls = {}

\* SyncFromPostgres, lines 173-174: shouldSyncTable is asked about a table
AskShouldSyncTable(t) ==
  /\ pc = "filter"
  /\ listed' = {t}
  /\ pgSchemaTables' = IF ShouldSyncTable(config.filter, t) THEN {t} ELSE {}
  /\ UNCHANGED <<pc, config, since, options, now, faults, catalog, metadataFiles, last,
                 writerCalls, deleteCalls, tempFiles, conn, enumVars, partVars>>

NextFilter == \E t \in FilterTables : AskShouldSyncTable(t)

SpecFilter == InitFilter /\ [][NextFilter]_vars

\* the sync command is not running: the state of a part modelled on its own
SyncNotRunning(part) ==
  /\ pc = part
  /\ config = DefaultConfig
  /\ since = [kind |-> "none", val |-> 0]
  /\ options = NilOptions
  /\ now = 2
  /\ faults = 0
  /\ listed = {}
  /\ pgSchemaTables = {}
  /\ catalog = EmptyCatalog
  /\ metadataFiles = NoMetadataFiles
  /\ last = NoCall
  /\ writerCalls = {}
  /\ deleteCalls = {}
  /\ tempFiles = {}
  /\ conn = NoConn

(***************************************************************************)
(* The table loop of SyncFromPostgres over a schema with inheritance: the  *)
(* rows of listPgSchemaTables, one for each parent of each ordinary table. *)
(***************************************************************************)
\* the ordinary tables of schema s1: t1, and the tables it may inherit from
ParentTables == {"t2", "t3"}
SchemaTablesOfS1 == {"t1"} \cup ParentTables

\* listPgSchemaTables, lines 262-288: pg_class LEFT JOIN pg_inherits LEFT JOIN
\* parent yields a row for each parent of a table, and one row with an empty
\* parent for a table that has none
ListPgSchemaTables(schema, parentsOfT1) ==
  {[Schema |-> schema, Table |-> t, ParentPartitionedTable |-> ""] :
     t \in IF parentsOfT1 = {} THEN SchemaTablesOfS1 ELSE ParentTables}
  \cup {[Schema |-> schema, Table |-> "t1", ParentPartitionedTable |-> p] :
          p \in parentsOfT1}

\* every row an enumeration of s1 may yield
EnumerationRows == UNION {ListPgSchemaTables("s1", x) : x \in SUBSET ParentTables}

\* the (schema, table) of a row of the enumeration
SchemaTableOf(row) == [Schema |-> row.Schema, Table |-> row.Table]

InheritFilters ==
  { DefaultConfig.filter,
    [DefaultConfig.filter EXCEPT !.ExcludeTables = NewSet({"s1.t2", "s1.t3"})] }

InitInherit ==
  /\ pc = "tables"
  /\ config \in {[DefaultConfig EXCEPT !.filter = f] : f \in InheritFilters}
  /\ since \in {[kind |-> "none", val |-> 0], [kind |-> "duration", val |-> 1]}
  /\ options = SyncOptionsOf(since, 2)
  /\ now = 2
  /\ faults = 0
  /\ listed = {}
  /\ pgSchemaTables = {}
  /\ catalog = EmptyCatalog
  /\ metadataFiles = NoMetadataFiles
  /\ last = NoCall
  /\ writerCalls = {}
  /\ deleteCalls = {}
  /\ tempFiles = {}
  /\ conn = SourceRead(BeginTransaction(Connect))
  /\ \E parentsOfT1 \in SUBSET ParentTables :
       sourceRows = ListPgSchemaTables("s1", parentsOfT1)
  /\ syncCalls = [t \in {} |-> 0]
  /\ NoParts

\* SyncFromPostgres, lines 172-177: one pass of the loop, for the next row of
\* the enumeration
SyncRow(row, rows) ==
  /\ pc = "tables"
  /\ row \in sourceRows
  /\ sourceRows' = sourceRows \ {row}
  /\ listed' = listed \cup {SchemaTableOf(row)}
  /\ IF ShouldSyncTable(config.filter, SchemaTableOf(row))
       THEN /\ pgSchemaTables' = pgSchemaTables \cup {SchemaTableOf(row)}
            /\ syncCalls' =
                 [u \in DOMAIN syncCalls \cup {SchemaTableOf(row)} |->
                    IF u = SchemaTableOf(row)
                      THEN (IF u \in DOMAIN syncCalls THEN syncCalls[u] ELSE 0) + 1
                      ELSE syncCalls[u]]
            /\ SyncFromPgTable(SchemaTableOf(row), rows)
       ELSE UNCHANGED <<pc, faults, pgSchemaTables, catalog, metadataFiles, last,
                        writerCalls, tempFiles, syncCalls>>
  /\ conn' = IF pc' = "crashed" THEN CloseConn(SourceRead(conn)) ELSE SourceRead(conn)
  /\ UNCHANGED <<config, since, options, now, deleteCalls, partVars>>

\* lines 180-183: the enumeration has ended
EndOfRows(readerFails) ==
  /\ sourceRows = {}
  /\ Reconcile(readerFails)

NextInherit ==
  \/ \E row \in EnumerationRows, rows \in 1..MaxRows : SyncRow(row, rows)
  \/ \E readerFails \in {"", "Schemas", "SchemaTables"} : EndOfRows(readerFails)

SpecInherit == InitInherit /\ [][NextInherit]_vars

(***************************************************************************)
(* start: the wire server. Each accepted connection is served by a         *)
(* goroutine of its own; the steps of the goroutines and of the accept     *)
(* loop interleave.                                                        *)
(***************************************************************************)
\* the states of a connection whose goroutine is inside postgres.Run
Running == {"startup", "ready"}

InitWire ==
  /\ SyncNotRunning("start")
  /\ NoEnum
  /\ stream = <<>>
  /\ databaseUrl = <<>>
  /\ orderedMap = <<>>
  /\ server = "listening"
  /\ sessions = <<>>

\* start, lines 60-70: a connection is accepted and its goroutine started
AcceptConnection ==
  /\ server = "listening"
  /\ Len(sessions) < MaxConns
  /\ sessions' = Append(sessions, "startup")
  /\ UNCHANGED <<syncVars, enumVars, stream, databaseUrl, orderedMap, server>>

\* postgres.Run: the startup of a session is done and it serves queries
ServeSession(i) ==
  /\ server = "listening"
  /\ i \in DOMAIN sessions
  /\ sessions[i] = "startup"
  /\ sessions' = [sessions EXCEPT ![i] = "ready"]
  /\ UNCHANGED <<syncVars, enumVars, stream, databaseUrl, orderedMap, server>>

\* lines 65-68: postgres.Run returns (the client has gone, or an error ended the
\* session); postgres.Close is deferred and runs as the goroutine ends
SessionReturns(i) ==
  /\ server = "listening"
  /\ i \in DOMAIN sessions
  /\ sessions[i] \in Running
  /\ sessions' = [sessions EXCEPT ![i] = "closed"]
  /\ UNCHANGED <<syncVars, enumVars, stream, databaseUrl, orderedMap, server>>

\* lines 65-66: postgres.Run panics. The goroutine recovers nothing and
\* postgres.Close is not deferred yet, so the panic ends the process: the accept
\* loop and every session end with it, their connections never closed by the
\* server
SessionPanics(i) ==
  /\ server = "listening"
  /\ i \in DOMAIN sessions
  /\ sessions[i] \in Running
  /\ server' = "dead"
  /\ sessions' = [j \in DOMAIN sessions |->
                    IF sessions[j] \in Running THEN "killed" ELSE sessions[j]]
  /\ UNCHANGED <<syncVars, enumVars, stream, databaseUrl, orderedMap>>

NextWire ==
  \/ AcceptConnection
  \/ \E i \in 1..MaxConns : ServeSession(i)
  \/ \E i \in 1..MaxConns : SessionReturns(i)
  \/ \E i \in 1..MaxConns : SessionPanics(i)

SpecWire == InitWire /\ [][NextWire]_vars

(***************************************************************************)
(* urlEncodePassword. A string is the sequence of its characters.          *)
(***************************************************************************)
\* strings.HasPrefix, and sub occurring in s at index i (from 1)
OccursAt(s, sub, i) ==
  /\ i >= 1
  /\ i + Len(sub) - 1 <= Len(s)
  /\ \A k \in 1..Len(sub) : s[i + k - 1] = sub[k]
Occurrences(s, sub) == {i \in 1..(Len(s) + 1) : OccursAt(s, sub, i)}
Least(S) == CHOOSE i \in S : \A j \in S : i <= j
Greatest(S) == CHOOSE i \in S : \A j \in S : i >= j
\* strings.Contains
StringsContains(s, sub) == Occurrences(s, sub) # {}
\* strings.TrimPrefix
TrimPrefix(s, prefix) ==
  IF OccursAt(s, prefix, 1) THEN SubSeq(s, Len(prefix) + 1, Len(s)) ELSE s
\* strings.Replace(s, old, new, 1): the first occurrence is replaced
ReplaceFirst(s, old, new) ==
  IF ~StringsContains(s, old) THEN s
  ELSE LET i == Least(Occurrences(s, old))
       IN  SubSeq(s, 1, i - 1) \o new \o SubSeq(s, i + Len(old), Len(s))

HexDigits ==
  {"0", "1", "2", "3", "4", "5", "6", "7", "8", "9",
   "A", "B", "C", "D", "E", "F", "a", "b", "c", "d", "e", "f"}
\* the characters url.QueryEscape leaves as they are, among those in use
Unreserved == {"x", "2", "4", "p", "o", "s", "t", "g", "r", "e", "q", "l"}
\* the percent-encodings of the other characters in use
Escapes ==
  {<<"$", <<"%", "2", "4">> >>, <<":", <<"%", "3", "A">> >>, <<"@", <<"%", "4", "0">> >>,
   <<"%", <<"%", "2", "5">> >>, <<"/", <<"%", "2", "F">> >>, <<"+", <<"%", "2", "B">> >>}
\* the character a pair of hexadecimal digits stands for
Byte(hi, lo) ==
  IF \E e \in Escapes : e[2] = <<"%", hi, lo>>
    THEN (CHOOSE e \in Escapes : e[2] = <<"%", hi, lo>>)[1]
    ELSE "0x" \o hi \o lo

\* url.QueryEscape
RECURSIVE QueryEscape(_)
QueryEscape(str) ==
  IF str = <<>> THEN <<>>
  ELSE LET c == Head(str)
           enc == IF c \in Unreserved THEN <<c>>
                  ELSE IF c = " " THEN <<"+">>
                  ELSE (CHOOSE e \in Escapes : e[1] = c)[2]
       IN  enc \o QueryEscape(Tail(str))

\* url.QueryUnescape: err is set when a % is not followed by two hexadecimal
\* digits
RECURSIVE QueryUnescape(_)
QueryUnescape(str) ==
  IF str = <<>> THEN [err |-> FALSE, str |-> <<>>]
  ELSE IF Head(str) = "%"
    THEN IF Len(str) < 3 \/ str[2] \notin HexDigits \/ str[3] \notin HexDigits
           THEN [err |-> TRUE, str |-> <<>>]
           ELSE LET rest == QueryUnescape(SubSeq(str, 4, Len(str)))
                IN  [err |-> rest.err, str |-> <<Byte(str[2], str[3])>> \o rest.str]
    ELSE LET rest == QueryUnescape(Tail(str))
         IN  [err |-> rest.err,
              str |-> <<IF Head(str) = "+" THEN " " ELSE Head(str)>> \o rest.str]

Postgresql == <<"p", "o", "s", "t", "g", "r", "e", "s", "q", "l", ":", "/", "/">>
Postgres == <<"p", "o", "s", "t", "g", "r", "e", "s", ":", "/", "/">>

\* lines 194-204: the password the function finds in the URL, with found unset
\* when the credentials hold no ":"
PasswordOf(url) ==
  LET trimmed == TrimPrefix(TrimPrefix(url, Postgresql), Postgres)
      passwordEndIndex == Greatest(Occurrences(trimmed, <<"@">>))
      credentials == SubSeq(trimmed, 1, passwordEndIndex - 1)
  IN  IF ~StringsContains(credentials, <<":">>)
        THEN [found |-> FALSE, password |-> <<>>]
        ELSE [found |-> TRUE,
              password |-> SubSeq(credentials,
                                  Least(Occurrences(credentials, <<":">>)) + 1,
                                  Len(credentials))]

\* an encoding that does not look whether the password is encoded already
UrlEncodePasswordAgain(url) ==
  IF ~StringsContains(url, <<"@">>) THEN url
  ELSE LET p == PasswordOf(url)
       IN  IF ~p.found THEN url
           ELSE IF QueryUnescape(p.password).err THEN url
           ELSE ReplaceFirst(url, <<":">> \o p.password \o <<"@">>,
                             <<":">> \o QueryEscape(p.password) \o <<"@">>)

\* urlEncodePassword, lines 188-216
UrlEncodePassword(url) ==
  IF ~StringsContains(url, <<"@">>) THEN url
  ELSE LET p == PasswordOf(url)
       IN  IF ~p.found THEN url
           ELSE LET decodedPassword == QueryUnescape(p.password)
                IN  IF decodedPassword.err THEN url
                    ELSE IF decodedPassword.str # p.password THEN url
                    ELSE ReplaceFirst(url, <<":">> \o p.password \o <<"@">>,
                                      <<":">> \o QueryEscape(p.password) \o <<"@">>)

\* the database URLs tried
UrlCharacters == {"x", ":", "@", "%", "2", "4", "$", "/", "+"}
UrlSchemes == {<<>>, Postgres, Postgresql}
DatabaseUrls(scheme, n) == {scheme \o rest : rest \in [1..n -> UrlCharacters]}

InitUrl ==
  /\ SyncNotRunning("urlEncodePassword")
  /\ NoEnum
  /\ stream = <<>>
  /\ orderedMap = <<>>
  /\ server = "off"
  /\ sessions = <<>>
  /\ \E scheme \in UrlSchemes, n \in 0..MaxUrlLen :
       \E url \in DatabaseUrls(scheme, n) : databaseUrl = <<url>>

\* urlEncodePassword is applied to the result of the last application
EncodeUrl ==
  /\ Len(databaseUrl) < 3
  /\ databaseUrl' = Append(databaseUrl, UrlEncodePassword(databaseUrl[Len(databaseUrl)]))
  /\ UNCHANGED <<syncVars, enumVars, stream, orderedMap, server, sessions>>

NextUrl == EncodeUrl

SpecUrl == InitUrl /\ [][NextUrl]_vars

(***************************************************************************)
(* The nextBatch closure of syncFromPgTable, pulled by one Write. The rows *)
(* of the spool are numbered 1..spool in the order of the file.            *)
(***************************************************************************)
BATCH_SIZE == 10000
PING_INTERVAL_BETWEEN_BATCHES == 20

\* the spools tried: whole batches, and one row more or one row less
SpoolSizes ==
  {n \in {k * BATCH_SIZE + d :
            k \in 0..(MaxPingIntervals * PING_INTERVAL_BETWEEN_BATCHES),
            d \in {0, 1, BATCH_SIZE - 1}} :
     n <= MaxPingIntervals * BATCH_SIZE * PING_INTERVAL_BETWEEN_BATCHES + 1}
\* the row at which csvReader.Read fails with an error that is not io.EOF; 0
\* when no read fails before the end of the file
FailingReads(spool) == {0} \cup ({1, BATCH_SIZE, BATCH_SIZE + 1, spool} \cap 1..spool)

\* lines 324-335: the rows one call appends, reading until BATCH_SIZE rows are
\* appended or a read returns an error, when `available` rows can be read
\* before the first error
RowsRead(available) ==
  IF available >= BATCH_SIZE THEN BATCH_SIZE ELSE available

\* lines 326-329: the call has met the error (a read was tried and failed)
MeetsError(available) == available < BATCH_SIZE

\* line 341
PingsAfter(totalRowCount) ==
  totalRowCount % (BATCH_SIZE * PING_INTERVAL_BETWEEN_BATCHES) = 0

NewStream(spool, failAt) ==
  [spool |-> spool, failAt |-> failAt, state |-> "writing", read |-> 0,
   reachedEnd |-> FALSE, totalRowCount |-> 0, batches |-> <<>>, empties |-> 0,
   pings |-> 0]

InitStream ==
  /\ SyncNotRunning("Write")
  /\ NoEnum
  /\ databaseUrl = <<>>
  /\ orderedMap = <<>>
  /\ server = "off"
  /\ sessions = <<>>
  /\ \E spool \in SpoolSizes : \E failAt \in FailingReads(spool) :
       stream = NewStream(spool, failAt)

\* the Writer calls nextBatch (lines 319-347); the batch returned is the rows
\* first..first+len-1 of the spool
NextBatch(pingFails) ==
  /\ stream.state = "writing"
  /\ stream.empties <= MaxExtraCalls
  /\ IF stream.reachedEnd
       THEN \* lines 319-321
            /\ ~pingFails
            /\ stream' = [stream EXCEPT !.empties = @ + 1,
                             !.batches = Append(@, [first |-> stream.read + 1, len |-> 0])]
       ELSE LET limit == IF stream.failAt = 0 THEN stream.spool ELSE stream.failAt - 1
                available == limit - stream.read
                len == RowsRead(available)
                totalRowCount == stream.totalRowCount + len
                pinged == PingsAfter(totalRowCount)
            IN  /\ pingFails => pinged
                /\ stream' =
                     [stream EXCEPT
                        !.read = @ + len,
                        !.reachedEnd = MeetsError(available),
                        !.totalRowCount = totalRowCount,
                        !.pings = IF pinged THEN @ + 1 ELSE @,
                        !.state = IF pingFails THEN "panic" ELSE @,
                        !.empties = IF len = 0 /\ ~pingFails THEN @ + 1 ELSE @,
                        !.batches = IF pingFails THEN @
                                    ELSE Append(@, [first |-> stream.read + 1, len |-> len])]
  /\ UNCHANGED <<syncVars, enumVars, databaseUrl, orderedMap, server, sessions>>

\* the Writer has been given an empty batch, the end of the stream, and Write
\* returns
WriteReturns ==
  /\ stream.state = "writing"
  /\ stream.empties >= 1
  /\ stream' = [stream EXCEPT !.state = "returned"]
  /\ UNCHANGED <<syncVars, enumVars, databaseUrl, orderedMap, server, sessions>>

NextStream ==
  \/ \E pingFails \in BOOLEAN : NextBatch(pingFails)
  \/ WriteReturns

SpecStream == InitStream /\ [][NextStream]_vars

(***************************************************************************)
(* OrderedMap.                                                             *)
(***************************************************************************)
MapKeys == {"a", "b", "c"}
MapValues == {"1", "2"}
KeyVals == [key : MapKeys, value : MapValues]

\* a Set that appends the key whether the map holds it or not
OrderedMapSetAppending(om, key, value) ==
  [valueByKey |-> [k \in DOMAIN om.valueByKey \cup {key} |->
                     IF k = key THEN value ELSE om.valueByKey[k]],
   orderedKeys |-> Append(om.orderedKeys, key)]

\* OrderedMap.Set, lines 28-34
OrderedMapSet(om, key, value) ==
  [valueByKey |-> [k \in DOMAIN om.valueByKey \cup {key} |->
                     IF k = key THEN value ELSE om.valueByKey[k]],
   orderedKeys |-> IF key \in DOMAIN om.valueByKey
                     THEN om.orderedKeys
                     ELSE Append(om.orderedKeys, key)]

\* NewOrderedMap, lines 15-26: the empty map, then a Set for each pair
RECURSIVE SetEach(_, _)
SetEach(om, keyVals) ==
  IF keyVals = <<>> THEN om
  ELSE SetEach(OrderedMapSet(om, Head(keyVals).key, Head(keyVals).value), Tail(keyVals))
NewOrderedMap(keyVals) ==
  SetEach([valueByKey |-> [k \in {} |-> ""], orderedKeys |-> <<>>], keyVals)

\* OrderedMap.Keys, lines 36-38
Keys(om) == om.orderedKeys
\* OrderedMap.Values, lines 40-47; a key the map does not hold reads as ""
Values(om) ==
  [i \in 1..Len(om.orderedKeys) |->
     IF om.orderedKeys[i] \in DOMAIN om.valueByKey
       THEN om.valueByKey[om.orderedKeys[i]]
       ELSE ""]

InitMap ==
  /\ SyncNotRunning("OrderedMap")
  /\ NoEnum
  /\ stream = <<>>
  /\ databaseUrl = <<>>
  /\ server = "off"
  /\ sessions = <<>>
  /\ \E keyVals \in UNION {[1..n -> KeyVals] : n \in 0..1} :
       orderedMap = [map |-> NewOrderedMap(keyVals), sets |-> keyVals]

\* a Set call; `sets` keeps the calls made so far
SetKey(key, value) ==
  /\ Len(orderedMap.sets) < MaxSets
  /\ orderedMap' = [map |-> OrderedMapSet(orderedMap.map, key, value),
                    sets |-> Append(orderedMap.sets, [key |-> key, value |-> value])]
  /\ UNCHANGED <<syncVars, enumVars, stream, databaseUrl, server, sessions>>

NextMap == \E key \in MapKeys, value \in MapValues : SetKey(key, value)

SpecMap == InitMap /\ [][NextMap]_vars

(***************************************************************************)
(* Properties.                                                             *)
(***************************************************************************)
\* this step is a pass of the table loop that calls syncFromPgTable
CallsSyncFromPgTable == pc = "tables" /\ pgSchemaTables' # pgSchemaTables
\* the table it is called for
CalledTable == CHOOSE t \in pgSchemaTables' \ pgSchemaTables : TRUE
\* the sink tables and schemas the tables selected in this run cover
Covered == {ToIcebergSchemaTable(t) : t \in pgSchemaTables}
CoveredSchemas == {t.Schema : t \in pgSchemaTables}
\* the source tables of this run that shouldSyncTable rejects
Rejected == {t \in listed : ~ShouldSyncTable(config.filter, t)}

\* C1: in a run with a non-empty SchemaPrefix neither DeleteSchema nor
\* DeleteSchemaTable is called, and no schema or table leaves the sink.
ReconciliationSafety ==
  /\ [](config.SchemaPrefix # "" => deleteCalls = {})
  /\ [][(config.SchemaPrefix # "" /\ pc \in {"syncFromPg", "tables"})
          => /\ catalog.schemas \subseteq catalog'.schemas
             /\ DOMAIN catalog.tables \subseteq DOMAIN catalog'.tables]_vars

\* a run with a prefix has returned and the sink holds a table no selected source
\* table covers
PrefixedRunKeepsOrphan ==
  /\ pc = "returned"
  /\ config.SchemaPrefix # ""
  /\ \E i \in DOMAIN catalog.tables : i \notin Covered

\* C2: syncFromPgTable skips the table (no Writer call, no metadata write, the sink
\* unchanged) exactly when Since is set, a persisted metadata file of the table has
\* LastSyncTime strictly after Since, and the checksum the query returns equals the
\* persisted checksum; otherwise it goes on to export and write.
IncrementalSkipDecision ==
  [][(CallsSyncFromPgTable /\ last'.error # "getTableMetadata")
       => LET t == CalledTable
              sinceSet == ~options.isNil /\ options.Since # 0
              skip == /\ sinceSet
                      /\ t \in DOMAIN metadataFiles
                      /\ metadataFiles[t].LastSyncTime > options.Since
                      /\ last'.currentChecksum = metadataFiles[t].Checksum
          IN  /\ (last'.outcome = "skipped") <=> skip
              /\ last'.outcome = "skipped"
                   => /\ catalog' = catalog
                      /\ metadataFiles' = metadataFiles
                      /\ writerCalls' = writerCalls
              /\ last'.outcome = "synced"
                   => /\ ToIcebergSchemaTable(t) \in writerCalls'
                      /\ t \in DOMAIN metadataFiles']_vars

\* C3: a table with a persisted metadata file is never skipped when the checksum
\* query of the skip decision fails.
FailedChecksumForcesFullSync ==
  ~ ( /\ last.outcome = "skipped"
      /\ last.queried
      /\ last.currentChecksum = ""
      /\ last.table \in DOMAIN metadataFiles )

\* C4: an error of one table's sync does not end the run.
PerTableErrorDoesNotAbortRun ==
  ~ (pc = "crashed" /\ last.table # NoTable)

\* C5: with Pg.SyncInterval set, a failed run does not end the process.
DaemonSurvivesFailedRun ==
  ~ (pc = "crashed" /\ config.SyncInterval # "")

\* C6: when a run with an empty SchemaPrefix returns, every sink schema and table
\* that no selected source table covers has been deleted through the Writer, the
\* covered tables are kept as they were, and no orphan is left.
DeletionReconciliation ==
  [][(pc = "tables" /\ pc' = "returned" /\ config.SchemaPrefix = "")
       => /\ \A x \in catalog.schemas :
               x \notin CoveredSchemas
                 => x \notin catalog'.schemas /\ SchemaCall(x) \in deleteCalls'
          /\ \A i \in DOMAIN catalog.tables :
               i \notin Covered
                 => /\ i \notin DOMAIN catalog'.tables
                    /\ TableCall(i) \in deleteCalls' \/ SchemaCall(i.Schema) \in deleteCalls'
          /\ \A i \in DOMAIN catalog.tables :
               i \in Covered
                 => /\ i \in DOMAIN catalog'.tables
                    /\ catalog'.tables[i] = catalog.tables[i]
                    /\ TableCall(i) \notin deleteCalls'
                    /\ SchemaCall(i.Schema) \notin deleteCalls'
          /\ DOMAIN catalog'.tables \subseteq Covered
          /\ catalog'.schemas \subseteq CoveredSchemas]_vars

\* a run without prefix has returned after deleting a table of a schema it keeps
ReconciledOneTable ==
  /\ pc = "returned"
  /\ config.SchemaPrefix = ""
  /\ \E c \in deleteCalls : c.op = "DeleteSchemaTable"
  /\ DOMAIN catalog.tables # {}

\* C7, as claimed: after a completed run no rejected source table has been written
\* and none is in the sink.
FilteredExclusion ==
  pc = "returned"
    => \A t \in Rejected :
         /\ ToIcebergSchemaTable(t) \notin writerCalls
         /\ ToIcebergSchemaTable(t) \notin DOMAIN catalog.tables

\* C7, amended: after a completed run no rejected source table has been written,
\* and with an empty SchemaPrefix none is in the sink.
FilteredExclusionWithoutPrefix ==
  pc = "returned"
    => \A t \in Rejected :
         /\ ToIcebergSchemaTable(t) \notin writerCalls
         /\ config.SchemaPrefix = "" => ToIcebergSchemaTable(t) \notin DOMAIN catalog.tables

\* a run without prefix has returned, having rejected a table an earlier run synced
RejectedAfterEarlierSync ==
  /\ pc = "returned"
  /\ config.SchemaPrefix = ""
  /\ \E t \in Rejected : t \in DOMAIN metadataFiles

\* C8: a table passes shouldSyncTable iff its schema passes the schema lists and
\* its id passes the table lists, an include list hiding the exclude list of its
\* kind; with no list set every table passes.
SchemaTest(f, schema) ==
  IF ~f.IncludeSchemas.isNil THEN schema \in f.IncludeSchemas.items
  ELSE IF ~f.ExcludeSchemas.isNil THEN schema \notin f.ExcludeSchemas.items
  ELSE TRUE
TableTest(f, id) ==
  IF ~f.IncludeTables.isNil THEN id \in f.IncludeTables.items
  ELSE IF ~f.ExcludeTables.isNil THEN id \notin f.ExcludeTables.items
  ELSE TRUE
FilterSemantics ==
  \A t \in listed :
    /\ (t \in pgSchemaTables)
         <=> SchemaTest(config.filter, t.Schema)
               /\ TableTest(config.filter, t.Schema \o "." \o t.Table)
    /\ ( /\ config.filter.IncludeSchemas.isNil /\ config.filter.ExcludeSchemas.isNil
         /\ config.filter.IncludeTables.isNil /\ config.filter.ExcludeTables.isNil )
         => t \in pgSchemaTables

\* a table passes although its schema and its id are on the exclude lists, the
\* include lists naming them too
IncludeWinsOverExclude ==
  /\ pc = "filter"
  /\ \E t \in pgSchemaTables :
       /\ ~config.filter.IncludeSchemas.isNil
       /\ t.Schema \in config.filter.ExcludeSchemas.items
       /\ ~config.filter.IncludeTables.isNil
       /\ TableId(t) \in config.filter.ExcludeTables.items

\* C9: a metadata file is written only in a call of syncFromPgTable whose Write
\* has returned, and then holds the clock reading, the rows streamed and the
\* checksum calculateTableChecksum returns (the source's, or "" when the query
\* fails); a skipped table and a sync failing before the commit leave the metadata
\* files and the sink as they were.
MetadataWrittenAfterWrite ==
  [][/\ metadataFiles' # metadataFiles
          => /\ CallsSyncFromPgTable
             /\ last'.outcome = "synced"
             /\ LET t == CalledTable
                IN  /\ ToIcebergSchemaTable(t) \in writerCalls'
                    /\ ToIcebergSchemaTable(t) \in DOMAIN catalog'.tables
                    /\ catalog'.tables[ToIcebergSchemaTable(t)] = last'.streamed
                    /\ DOMAIN metadataFiles' = DOMAIN metadataFiles \cup {t}
                    /\ \A u \in DOMAIN metadataFiles :
                         u # t => metadataFiles'[u] = metadataFiles[u]
                    /\ metadataFiles'[t].LastSyncTime = now
                    /\ metadataFiles'[t].RowCount = last'.streamed
                    /\ metadataFiles'[t].Checksum
                         \in {ToString(last'.rows) \o ":" \o SumHash(last'.rows), ""}
     /\ ( /\ CallsSyncFromPgTable
          /\ \/ last'.outcome = "skipped"
             \/ last'.outcome = "panic" /\ last'.error # "saveTableMetadata" )
          => metadataFiles' = metadataFiles /\ catalog' = catalog
     /\ (CallsSyncFromPgTable /\ last'.outcome = "synced")
          => CalledTable \in DOMAIN metadataFiles'
               /\ metadataFiles'[CalledTable].LastSyncTime = now]_vars

\* a table has been synced and its metadata file written
TableSyncedAndRecorded ==
  /\ last.outcome = "synced"
  /\ last.table \in DOMAIN metadataFiles
  /\ metadataFiles[last.table].LastSyncTime = now
  /\ metadataFiles[last.table].RowCount = last.streamed

\* C10: every metadata file holds the row count of the table's snapshot in the
\* sink; no step of a run that does not panic breaks this.
MetadataMatchesSink ==
  \A t \in DOMAIN metadataFiles :
    /\ ToIcebergSchemaTable(t) \in DOMAIN catalog.tables
    /\ metadataFiles[t].RowCount = catalog.tables[ToIcebergSchemaTable(t)]
MetadataSinkConsistency ==
  [][(pc' # "crashed" /\ MetadataMatchesSink) => MetadataMatchesSink']_vars

\* C11: when csvReader.Read fails before the end of the spool, the table is not
\* synced: the rows read so far are not committed as the table's snapshot and
\* the metadata file is not written.
CsvReadErrorFailsSync ==
  \A t \in PgSchemaTables :
    (last.table = t /\ last.streamed < last.rows)
      => ~ ( /\ last.outcome = "synced"
             /\ catalog.tables[ToIcebergSchemaTable(t)] = last.streamed
             /\ metadataFiles[t].RowCount = last.streamed )

\* C12: no spool file is left in the file system once exportPgTableToCsv has
\* exited, however it exited and however many tables were synced before.
NoSpoolFileRemains == tempFiles = {}

\* an export has ended in the panic of CopyTo after another table was synced
ExportPanickedAfterSync ==
  /\ pc = "crashed"
  /\ last.error = "exportPgTableToCsv"
  /\ writerCalls # {}
  /\ tempFiles = {}

\* C13: every read of the source in a run is made on the run's connection inside
\* the transaction begun at its start, which stays open, with none begun after
\* it, until SyncFromPostgres returns or panics.
SingleTransaction ==
  /\ [](~conn.readOutsideTxn)
  /\ [](pc = "tables" => conn.open /\ conn.txn = "begun" /\ conn.read)
  /\ [][(conn.txn = "begun" /\ conn'.txn # "begun") => pc' \in {"returned", "crashed"}]_vars
  /\ [][(conn.txn # "begun" /\ conn'.txn = "begun") => pc = "syncFromPg"]_vars

\* a run that synced both tables has returned, all its reads inside the transaction
BothTablesReadInTransaction ==
  /\ pc = "returned"
  /\ conn.read
  /\ ~conn.readOutsideTxn
  /\ Cardinality(writerCalls) = 2

\* C14: when a session ends, by an error or by a panic, its connection is closed,
\* every other session is as it was and the server is still accepting.
SessionIsolation ==
  [][\A i \in DOMAIN sessions :
       (sessions[i] \in Running /\ sessions'[i] \notin Running)
         => /\ sessions'[i] = "closed"
            /\ server' = "listening"
            /\ \A j \in DOMAIN sessions : j # i => sessions'[j] = sessions[j]]_vars

\* C15: urlEncodePassword applied to its own result returns it unchanged, and a
\* URL whose password holds a percent-encoding is returned as it is.
UrlEncodeIdempotent ==
  /\ Len(databaseUrl) = 3 => databaseUrl[3] = databaseUrl[2]
  /\ ( /\ Len(databaseUrl) >= 2
       /\ StringsContains(databaseUrl[1], <<"@">>)
       /\ PasswordOf(databaseUrl[1]).found
       /\ ~QueryUnescape(PasswordOf(databaseUrl[1]).password).err
       /\ StringsContains(PasswordOf(databaseUrl[1]).password, <<"%">>) )
       => databaseUrl[2] = databaseUrl[1]

\* a password was encoded by the first application and left alone by the second
EncodedOnceOnly ==
  /\ Len(databaseUrl) = 3
  /\ databaseUrl[2] # databaseUrl[1]
  /\ databaseUrl[3] = databaseUrl[2]

\* C16: the batches nextBatch returns hold at most BATCH_SIZE rows each and are,
\* one after the other, the rows 1..spool of the spool; an empty batch comes only
\* once all of them were returned, only empty batches follow it, and
\* totalRowCount ends as the number of rows of the spool.
BatchesInOrder ==
  \A i \in DOMAIN stream.batches :
    /\ stream.batches[i].len <= BATCH_SIZE
    /\ stream.batches[i].first =
         IF i = 1 THEN 1 ELSE stream.batches[i - 1].first + stream.batches[i - 1].len
BatchStreaming ==
  /\ pc = "Write" => BatchesInOrder
  /\ (pc = "Write" /\ stream.empties >= 1)
       => /\ stream.read = stream.spool
          /\ stream.totalRowCount = stream.spool
          /\ \A i, j \in DOMAIN stream.batches :
               (i < j /\ stream.batches[i].len = 0) => stream.batches[j].len = 0

\* C17: when Write returns for a spool read to its end, SELECT 1 has been issued
\* once for each BATCH_SIZE * PING_INTERVAL_BETWEEN_BATCHES rows of the spool.
PingCadence ==
  (pc = "Write" /\ stream.state = "returned" /\ stream.failAt = 0)
    => stream.pings = stream.spool \div (BATCH_SIZE * PING_INTERVAL_BETWEEN_BATCHES)

\* C18: in one run syncFromPgTable is called at most once for a (schema, table).
SyncedOncePerTable ==
  \A t \in DOMAIN syncCalls : syncCalls[t] <= 1

\* C19: a table that the incremental decision skips, its source checksum being
\* the one of its metadata file, is a table the sink holds; so a selected table
\* is not left out of the sink on the strength of a stale metadata file.
SkippedTableIsInSink ==
  ( /\ last.outcome = "skipped"
    /\ last.table \in DOMAIN metadataFiles
    /\ last.currentChecksum # "" )
    => ToIcebergSchemaTable(last.table) \in DOMAIN catalog.tables

\* C20: after NewOrderedMap and any Set calls, orderedKeys has no duplicate, its
\* elements are the keys of valueByKey, the keys stand in the order of their
\* first Set (a Set of a key the map holds changes its value only), and Values()
\* gives at each position the value last set for the key Keys() has there.
FirstSetAt(sets, key) == Least({i \in DOMAIN sets : sets[i].key = key})
LastSetAt(sets, key) == Greatest({i \in DOMAIN sets : sets[i].key = key})
OrderedMapInvariant ==
  pc = "OrderedMap" =>
    LET om == orderedMap.map
        sets == orderedMap.sets
        keys == Keys(om)
    IN  /\ \A i, j \in DOMAIN keys : i # j => keys[i] # keys[j]
        /\ {keys[i] : i \in DOMAIN keys} = DOMAIN om.valueByKey
        /\ {keys[i] : i \in DOMAIN keys} = {sets[i].key : i \in DOMAIN sets}
        /\ \A i, j \in DOMAIN keys :
             i < j => FirstSetAt(sets, keys[i]) < FirstSetAt(sets, keys[j])
        /\ Len(Values(om)) = Len(keys)
        /\ \A i \in DOMAIN keys : Values(om)[i] = sets[LastSetAt(sets, keys[i])].value

\* a key was set again, to another value, after a second key was inserted
KeySetAgain ==
  /\ pc = "OrderedMap"
  /\ Len(Keys(orderedMap.map)) >= 2
  /\ \E i, j \in DOMAIN orderedMap.sets :
       /\ i + 1 < j
       /\ orderedMap.sets[i].key = orderedMap.sets[j].key
       /\ orderedMap.sets[i].value # orderedMap.sets[j].value
       /\ orderedMap.sets[i].key = Keys(orderedMap.map)[1]

====
